---- MODULE Spec2Model ----
(***************************************************************************)
(* Model of the publish service: the upsert server (src/push-code-to-db.js)*)
(* and the update-only server (src/unnamed/part_000), both writing to the  *)
(* "app" table of the datastore selected by the env field of the request.  *)
(* A request handler is a process that advances from one await to the next.*)
(***************************************************************************)
EXTENDS Integers, Sequences, FiniteSets, TLC

(***************************************************************************)
(* Bounds                                                                  *)
(***************************************************************************)
\* number of requests a behaviour serves
MaxRequests == 2

(***************************************************************************)
(* JavaScript values.  A string is a sequence of characters; a character   *)
(* stands for itself or for a run of characters that is never split.       *)
(***************************************************************************)
Undefined == [t |-> "undefined"]
Null == [t |-> "null"]
Str(s) == [t |-> "string", s |-> s]
Bool(b) == [t |-> "boolean", b |-> b]
Arr(a) == [t |-> "array", a |-> a]
Obj == [t |-> "object"]
S(w) == Str(<<w>>)
EmptyStr == Str(<< >>)

\* JavaScript truthiness (!x is ~Truthy(x))
Truthy(v) ==
  CASE v.t = "undefined" -> FALSE
    [] v.t = "null" -> FALSE
    [] v.t = "string" -> v.s # << >>
    [] v.t = "boolean" -> v.b
    [] OTHER -> TRUE

\* gitSha ?? null
NullishCoalesce(v, d) == IF v.t \in {"undefined", "null"} THEN d ELSE v

RECURSIVE JoinQuoted(_)
JoinQuoted(a) ==
  IF a = << >> THEN << >>
  ELSE IF Len(a) = 1 THEN <<"\"">> \o a[1].s \o <<"\"">>
  ELSE <<"\"">> \o a[1].s \o <<"\"", ",">> \o JoinQuoted(Tail(a))

\* JSON.stringify of a value (arrays hold strings); the result is a JS string
JSONStringify(v) ==
  CASE v.t = "null" -> Str(<<"null">>)
    [] v.t = "boolean" -> Str(IF v.b THEN <<"true">> ELSE <<"false">>)
    [] v.t = "string" -> Str(<<"\"">> \o v.s \o <<"\"">>)
    [] v.t = "array" -> Str(<<"[">> \o JoinQuoted(v.a) \o <<"]">>)
    [] v.t = "object" -> Str(<<"{", "}">>)
    [] OTHER -> Undefined

(***************************************************************************)
(* The datastore side of client.query: how a bound parameter is sent and   *)
(* how the column it is assigned to reads it.                              *)
(***************************************************************************)
\* the text the driver sends for a parameter (NULL for null and undefined,
\* an array literal for a JS array)
PrepareValue(v) ==
  CASE v.t \in {"undefined", "null"} -> Null
    [] v.t = "string" -> v
    [] v.t = "boolean" -> Str(IF v.b THEN <<"true">> ELSE <<"false">>)
    [] v.t = "array" -> Str(<<"{">> \o JoinQuoted(v.a) \o <<"}">>)
    [] OTHER -> JSONStringify(v)

Invalid == [t |-> "invalid"]

\* the elements of a JSON array text: "x" , "y" ...
RECURSIVE ParseItems(_)
ParseItems(s) ==
  IF s = << >> THEN << >>
  ELSE IF Len(s) >= 3 /\ s[1] = "\"" /\ s[3] = "\""
    THEN LET rest == SubSeq(s, 4, Len(s))
             more == IF rest = << >> THEN << >>
                     ELSE IF rest[1] = "," /\ Len(rest) > 1
                       THEN ParseItems(Tail(rest))
                       ELSE <<Invalid>>
         IN <<S(s[2])>> \o more
  ELSE IF Len(s) >= 2 /\ s[1] = "\"" /\ s[2] = "\""
    THEN LET rest == SubSeq(s, 3, Len(s))
             more == IF rest = << >> THEN << >>
                     ELSE IF rest[1] = "," /\ Len(rest) > 1
                       THEN ParseItems(Tail(rest))
                       ELSE <<Invalid>>
         IN <<EmptyStr>> \o more
  ELSE <<Invalid>>

\* jsonb input: the document a text denotes, Invalid when it is not JSON
JsonbIn(s) ==
  IF s = <<"null">> THEN Null
  ELSE IF s = <<"true">> THEN Bool(TRUE)
  ELSE IF s = <<"false">> THEN Bool(FALSE)
  ELSE IF s = <<"{", "}">> THEN Obj
  ELSE IF s = <<"\"", "\"">> THEN EmptyStr
  ELSE IF Len(s) = 3 /\ s[1] = "\"" /\ s[3] = "\"" THEN S(s[2])
  ELSE IF Len(s) >= 2 /\ s[1] = "[" /\ s[Len(s)] = "]"
    THEN LET items == ParseItems(SubSeq(s, 2, Len(s) - 1))
         IN IF \E i \in 1..Len(items) : items[i] = Invalid THEN Invalid
            ELSE Arr(items)
  ELSE Invalid

\* column types of table app (tags is the jsonb column of the ::jsonb cast)
ColumnType ==
  [app_id |-> "text", app_name |-> "text", app_version |-> "text",
   app_code |-> "text", has_triggers |-> "boolean", has_actions |-> "boolean",
   git_sha |-> "text", tags |-> "jsonb"]

\* the value a column of the given type stores for a sent parameter
ColumnIn(type, p) ==
  IF p.t = "null" THEN Null
  ELSE IF type = "text" THEN p
  ELSE IF type = "boolean"
    THEN IF p.s = <<"true">> THEN Bool(TRUE)
         ELSE IF p.s = <<"false">> THEN Bool(FALSE)
         ELSE Invalid
  ELSE JsonbIn(p.s)

(***************************************************************************)
(* Environment Router                                                      *)
(***************************************************************************)
\* process.env after dotenv: one datastore URL per environment
ProcessEnv ==
  [PRESTAGING_DB_URL |-> S("db_prestaging"),
   STAGING_DB_URL |-> S("db_staging"),
   PRODUCTION_DB_URL |-> S("db_production")]

Endpoints == {ProcessEnv[k] : k \in DOMAIN ProcessEnv}

\* variant: an unknown env falls back to the staging datastore
getDbUrl_Fallback(env) ==
  IF env = S("prestaging") THEN ProcessEnv.PRESTAGING_DB_URL
  ELSE IF env = S("production") THEN ProcessEnv.PRODUCTION_DB_URL
  ELSE ProcessEnv.STAGING_DB_URL

getDbUrl(env) ==
  IF env = S("prestaging") THEN ProcessEnv.PRESTAGING_DB_URL
  ELSE IF env = S("staging") THEN ProcessEnv.STAGING_DB_URL
  ELSE IF env = S("production") THEN ProcessEnv.PRODUCTION_DB_URL
  ELSE Null

(***************************************************************************)
(* Table app: a sequence of rows.  Statements are executed by the          *)
(* datastore with the positional parameters the handler bound.             *)
(***************************************************************************)
\* rows of a table whose app_id is the key
RowsOf(table, key) == SelectSeq(table, LAMBDA r : r.app_id = key)

\* SELECT app_id FROM app WHERE app_id = $1
ExecSelect(table, values) ==
  LET key == ColumnIn(ColumnType.app_id, PrepareValue(values[1]))
  IN [rowCount |-> Len(RowsOf(table, key))]

\* one row after the SET list of an UPDATE, assignment i reading parameter
\* sets[i].param (0: CURRENT_TIMESTAMP)
RECURSIVE ApplySets(_, _, _, _)
ApplySets(row, sets, values, ts) ==
  IF sets = << >> THEN row
  ELSE LET a == Head(sets)
           v == IF a.param = 0 THEN ts
                ELSE ColumnIn(ColumnType[a.col], PrepareValue(values[a.param]))
       IN ApplySets([row EXCEPT ![a.col] = v], Tail(sets), values, ts)

\* variant: the statement has no WHERE clause
ExecUpdate_NoWhere(table, q, ts) ==
  LET new == [i \in 1..Len(table) |->
                ApplySets(table[i], q.sets, q.values, ts)]
  IN [table |-> new, rows |-> new, rowCount |-> Len(new)]

\* UPDATE app SET ... WHERE app_id = $where RETURNING app_id, updated_at
ExecUpdate(table, q, ts) ==
  LET key == ColumnIn(ColumnType.app_id, PrepareValue(q.values[q.where]))
      new == [i \in 1..Len(table) |->
                IF table[i].app_id = key
                  THEN ApplySets(table[i], q.sets, q.values, ts)
                  ELSE table[i]]
  IN [table |-> new, rows |-> RowsOf(new, key),
      rowCount |-> Len(RowsOf(new, key))]

\* variant: the statement replaces the content of the table
ExecInsert_Replace(table, q, ts) ==
  LET col(c) == LET i == CHOOSE j \in 1..Len(q.columns) : q.columns[j] = c
                IN ColumnIn(ColumnType[c], PrepareValue(q.values[i]))
      row == [app_id |-> col("app_id"), app_name |-> col("app_name"),
              app_version |-> col("app_version"), app_code |-> col("app_code"),
              has_triggers |-> col("has_triggers"),
              has_actions |-> col("has_actions"), git_sha |-> col("git_sha"),
              tags |-> col("tags"), created_at |-> ts, updated_at |-> ts]
  IN [table |-> <<row>>, rows |-> <<row>>, rowCount |-> 1]

\* INSERT INTO app (columns) VALUES ($1..$8, CURRENT_TIMESTAMP,
\* CURRENT_TIMESTAMP) RETURNING app_id, created_at
ExecInsert(table, q, ts) ==
  LET col(c) == LET i == CHOOSE j \in 1..Len(q.columns) : q.columns[j] = c
                IN ColumnIn(ColumnType[c], PrepareValue(q.values[i]))
      row == [app_id |-> col("app_id"), app_name |-> col("app_name"),
              app_version |-> col("app_version"), app_code |-> col("app_code"),
              has_triggers |-> col("has_triggers"),
              has_actions |-> col("has_actions"), git_sha |-> col("git_sha"),
              tags |-> col("tags"), created_at |-> ts, updated_at |-> ts]
  IN [table |-> Append(table, row), rows |-> <<row>>, rowCount |-> 1]

\* variant: table app has no primary key
PrimaryKeyViolation_NoKey(table, q) == FALSE

\* app_id is the primary key of table app (the schema is not part of the
\* sources; spec.md, AppDescriptor: "primary key in the datastore"): an
\* INSERT of a key the table already holds is rejected
PrimaryKeyViolation(table, q) ==
  LET i == CHOOSE j \in 1..Len(q.columns) : q.columns[j] = "app_id"
  IN RowsOf(table, ColumnIn(ColumnType.app_id, PrepareValue(q.values[i])))
       # << >>

\* error.message of the rejection of a duplicate key
DuplicateKey == S("duplicate key value violates unique constraint")

(***************************************************************************)
(* Upsert handler: construction of the statements                          *)
(***************************************************************************)
\* the optional fields in the order the handler tests them, with the column
\* each one is assigned to
UpdatableFields ==
  <<[field |-> "appName", col |-> "app_name"],
    [field |-> "appVersion", col |-> "app_version"],
    [field |-> "appCode", col |-> "app_code"],
    [field |-> "hasTriggers", col |-> "has_triggers"],
    [field |-> "hasActions", col |-> "has_actions"],
    [field |-> "gitSha", col |-> "git_sha"],
    [field |-> "tags", col |-> "tags"]>>

\* the value pushed for a field: tags is serialized, the others are pushed raw
UpdateValue(field, v) == IF field = "tags" THEN JSONStringify(v) ELSE v

\* the if (x !== undefined) { updates.push(...$idx++); values.push(x) } blocks
RECURSIVE PushUpdates(_, _, _)
PushUpdates(body, i, acc) ==
  IF i > Len(UpdatableFields) THEN acc
  ELSE LET f == UpdatableFields[i]
       IN IF body[f.field] # Undefined
            THEN PushUpdates(body, i + 1,
                   [updates |-> Append(acc.updates,
                                       [col |-> f.col, param |-> acc.idx]),
                    values |-> Append(acc.values,
                                      UpdateValue(f.field, body[f.field])),
                    idx |-> acc.idx + 1])
            ELSE PushUpdates(body, i + 1, acc)

\* updates, values and idx when the handler reaches the length test
updates(body) ==
  LET acc == PushUpdates(body, 1, [updates |-> << >>, values |-> << >>, idx |-> 1])
  IN [acc EXCEPT !.updates = Append(acc.updates,
                                    [col |-> "updated_at", param |-> 0])]

\* variant: appId is put in front of the values instead of after them
updateQuery_AppIdFirst(body) ==
  LET u == updates(body)
  IN [kind |-> "update", sets |-> u.updates, where |-> u.idx,
      values |-> <<body.appId>> \o u.values]

\* updateQuery with values.push(appId)
updateQuery(body) ==
  LET u == updates(body)
  IN [kind |-> "update", sets |-> u.updates, where |-> u.idx,
      values |-> Append(u.values, body.appId)]

\* insertQuery with insertValues
insertValues(body) ==
  <<body.appName, body.appId, body.appVersion, body.appCode,
    body.hasTriggers, body.hasActions,
    NullishCoalesce(body.gitSha, Null),
    IF Truthy(body.tags) THEN JSONStringify(body.tags) ELSE Arr(<< >>)>>

insertQuery(body) ==
  [kind |-> "insert",
   columns |-> <<"app_name", "app_id", "app_version", "app_code",
                 "has_triggers", "has_actions", "git_sha", "tags">>,
   values |-> insertValues(body)]

\* SELECT app_id FROM app WHERE app_id = $1 with [appId]
existsQuery(body) == [kind |-> "select", values |-> <<body.appId>>]

(***************************************************************************)
(* Update-only handler: its statement                                      *)
(***************************************************************************)
\* variant: the statement overwrites app_name as well
query_AlsoName(body) ==
  [kind |-> "update",
   sets |-> <<[col |-> "app_code", param |-> 1],
              [col |-> "app_name", param |-> 1],
              [col |-> "updated_at", param |-> 0]>>,
   where |-> 2, values |-> <<body.appCode, body.appId>>]

\* UPDATE app SET app_code = $1, updated_at = NOW() WHERE app_id = $2
query(body) ==
  [kind |-> "update",
   sets |-> <<[col |-> "app_code", param |-> 1],
              [col |-> "updated_at", param |-> 0]>>,
   where |-> 2, values |-> <<body.appCode, body.appId>>]

NoQuery == [kind |-> "none"]

(***************************************************************************)
(* Requests                                                                *)
(***************************************************************************)
Body(env, appId, appName, appVersion, appCode, hasTriggers, hasActions, gitSha, tags) ==
  [env |-> env, appId |-> appId, appName |-> appName,
   appVersion |-> appVersion, appCode |-> appCode,
   hasTriggers |-> hasTriggers, hasActions |-> hasActions,
   gitSha |-> gitSha, tags |-> tags]

FieldNames == {UpdatableFields[i].field : i \in 1..Len(UpdatableFields)}

\* a descriptor with every creation field truthy
FullBody(env, appId, gitSha, tags) ==
  Body(env, appId, S("svc"), S("1.0"), S("code"), Bool(TRUE), Bool(TRUE),
       gitSha, tags)

\* the value a partial update supplies for a field
NewVal ==
  [appName |-> S("svc2"), appVersion |-> S("1.1"), appCode |-> S("code2"),
   hasTriggers |-> Bool(FALSE), hasActions |-> Bool(FALSE),
   gitSha |-> S("sha1"), tags |-> Arr(<<S("t1")>>)]

\* the descriptor that supplies exactly the fields of F
PartialBody(env, appId, F) ==
  [k \in {"env", "appId"} \cup FieldNames |->
     IF k = "env" THEN env
     ELSE IF k = "appId" THEN appId
     ELSE IF k \in F THEN NewVal[k] ELSE Undefined]

BaseBody == FullBody(S("staging"), S("a1"), S("sha0"), Arr(<<S("t0")>>))

\* the scenario descriptor: hasActions false, no gitSha, no tags
ScenarioBody ==
  Body(S("staging"), S("a1"), S("svc"), S("1.0"), S("code"), Bool(TRUE),
       Bool(FALSE), Undefined, Undefined)

PartialBodies == {PartialBody(S("staging"), S("a1"), F) : F \in SUBSET FieldNames}

CreationBodies ==
  {BaseBody, ScenarioBody,
   FullBody(S("staging"), S("a1"), Undefined, Undefined),
   FullBody(S("staging"), S("a1"), Null, Null),
   FullBody(S("staging"), S("a1"), S("sha0"), Arr(<< >>)),
   FullBody(S("staging"), S("a2"), S("sha0"), Arr(<<S("t0")>>)),
   [BaseBody EXCEPT !.appName = EmptyStr],
   [BaseBody EXCEPT !.appVersion = Undefined],
   [BaseBody EXCEPT !.appCode = EmptyStr],
   [BaseBody EXCEPT !.hasTriggers = Bool(FALSE)],
   [BaseBody EXCEPT !.hasActions = Undefined]}

RoutingBodies ==
  {[BaseBody EXCEPT !.env = e] :
     e \in {S("prestaging"), S("production"), S("dev"), EmptyStr, Undefined}}
  \cup {[BaseBody EXCEPT !.appId = Undefined],
        [BaseBody EXCEPT !.appId = EmptyStr],
        [BaseBody EXCEPT !.env = S("dev"), !.appId = Undefined],
        PartialBody(S("production"), S("a1"), {"appCode"})}

\* partial descriptors supplying no field, one field, or every field
CorePartialBodies ==
  {PartialBody(S("staging"), S("a1"), F) :
     F \in {G \in SUBSET FieldNames : Cardinality(G) <= 1} \cup {FieldNames}}

\* the first request of a run is drawn from every descriptor; the requests
\* after it from the descriptors without the larger partial updates
UpsertBodies(n) ==
  (IF n = 0 THEN PartialBodies ELSE CorePartialBodies)
  \cup CreationBodies \cup RoutingBodies

\* the update-only handler reads env, appId and appCode only
StrictBodies ==
  {PartialBody(e, S("a1"), F) :
     e \in {S("staging"), S("production"), S("dev"), Undefined},
     F \in {{"appCode"}, {}}}
  \cup {PartialBody(S("staging"), i, {"appCode"}) : i \in {S("a3"), Undefined}}
  \cup {[BaseBody EXCEPT !.appCode = EmptyStr]}

Variants == {"upsert", "strict"}

BodiesOf(v, n) == IF v = "upsert" THEN UpsertBodies(n) ELSE StrictBodies

Request(method, url, json, body) ==
  [method |-> method, url |-> url, json |-> json, body |-> body]

\* what a client may send: a publish with a descriptor, a body that is not
\* JSON, the JSON document null, and a request for another route
RequestsOf(v, n) ==
  {Request("POST", "/publish", "object", b) : b \in BodiesOf(v, n)}
  \cup {Request("POST", "/publish", "invalid", Undefined),
        Request("POST", "/publish", "null", Null),
        Request("GET", "/publish", "object", BaseBody),
        Request("POST", "/", "object", BaseBody)}

\* error messages of a failing connect or query
DbErrors == {S("db error"), EmptyStr}

(***************************************************************************)
(* Responses                                                               *)
(***************************************************************************)
Reply(status, success, error, action, environment, appId, at) ==
  [status |-> status, success |-> success, error |-> error,
   action |-> action, environment |-> environment, appId |-> appId, at |-> at]

NoResponse == Reply(0, Undefined, Undefined, Undefined, Undefined, Undefined, 0)

\* res.writeHead(status); res.end(JSON.stringify({success: false, error}))
Failure(status, error) ==
  Reply(status, Bool(FALSE), error, Undefined, Undefined, Undefined, 0)

\* res.writeHead(404); res.end("Not found")
NotFoundRoute ==
  Reply(404, Undefined, Undefined, Undefined, Undefined, Undefined, 0)

\* a catch block that hides the error's message
CatchReply_Generic(message) ==
  Failure(500, S("Internal server error"))

\* the response of the catch block: error.message || "Internal server error"
CatchReply(message) ==
  Failure(500, IF Truthy(message) THEN message ELSE S("Internal server error"))

\* writeHead(200) was followed by a TypeError on result.rows[0]: the second
\* writeHead in the catch block throws and the response is never ended
HeadersOnly ==
  Reply(200, Undefined, Undefined, Undefined, Undefined, Undefined, 0)

(***************************************************************************)
(* State                                                                   *)
(***************************************************************************)
\* the handlers that serve requests (one request at a time each)
Handlers == {1}

VARIABLES
  db,        \* db[url]: table app of the datastore at that URL
  now,       \* the datastores' clock (CURRENT_TIMESTAMP, NOW())
  served,    \* requests received so far
  pc,        \* pc[h]: the await the handler is suspended at
  variant,   \* variant[h]: the server the handler belongs to
  req,       \* req[h]: the request being served
  client,    \* client[h]: undefined, connecting, connected, failed, ended
  target,    \* target[h]: connectionString of client[h]
  stmt,      \* stmt[h]: the statement client.query was called with
  result,    \* result[h]: existsResult (upsert), result (update-only)
  response,  \* response[h]: what res.end sent
  trace,     \* trace[h]: datastore calls and the response, in order
  acquires,  \* acquires[v]: client.connect() calls of server v
  releases,  \* releases[v]: client.end() calls of server v
  live,      \* live[v]: connections of server v that are open
  thrown,    \* thrown[h]: message of the error a datastore call rejected with
  snapshot,  \* snapshot[h]: db when the request being served arrived
  prior      \* prior[h]: the response to the previous request of h when the
             \* request being served repeats it, else NoResponse

vars == <<db, now, served, pc, variant, req, client, target, stmt, result,
          response, trace, acquires, releases, live, thrown, snapshot,
          prior>>

NoResult == [rowCount |-> -1, rows |-> << >>]

\* a record a publish of BaseBody created at time 0
SeedRow(appId) ==
  [app_id |-> appId, app_name |-> S("svc"), app_version |-> S("1.0"),
   app_code |-> S("code"), has_triggers |-> Bool(TRUE),
   has_actions |-> Bool(TRUE), git_sha |-> S("sha0"),
   tags |-> Arr(<<S("t0")>>), created_at |-> 0, updated_at |-> 0]

EmptyDb == [u \in Endpoints |-> << >>]

\* the stores a run starts from: all empty, or staging holding two records
InitialDbs ==
  {EmptyDb,
   [EmptyDb EXCEPT ![ProcessEnv.STAGING_DB_URL] =
      <<SeedRow(S("a1")), SeedRow(S("a2"))>>]}

Init ==
  /\ db \in InitialDbs
  /\ now = 1
  /\ served = 0
  /\ pc = [h \in Handlers |-> "idle"]
  /\ variant = [h \in Handlers |-> "upsert"]
  /\ req = [h \in Handlers |-> Request("GET", "/", "invalid", Undefined)]
  /\ client = [h \in Handlers |-> "undefined"]
  /\ target = [h \in Handlers |-> Null]
  /\ stmt = [h \in Handlers |-> NoQuery]
  /\ result = [h \in Handlers |-> NoResult]
  /\ response = [h \in Handlers |-> NoResponse]
  /\ trace = [h \in Handlers |-> << >>]
  /\ acquires = [v \in Variants |-> 0]
  /\ releases = [v \in Variants |-> 0]
  /\ live = [v \in Variants |-> 0]
  /\ thrown = [h \in Handlers |-> Undefined]
  /\ snapshot = [h \in Handlers |-> db]
  /\ prior = [h \in Handlers |-> NoResponse]

(***************************************************************************)
(* Steps shared by the code of both servers                                *)
(***************************************************************************)
\* res.end(...): the response is produced
Respond(h, r) ==
  /\ response' = [response EXCEPT ![h] = r]

\* client.end() is called
CallEnd(h) ==
  /\ releases' = [releases EXCEPT ![variant[h]] = @ + 1]

\* the request callback starts: route test, then await readBody(req)
Receive(h, v, r) ==
  /\ pc[h] \in {"idle", "done"}
  /\ served < MaxRequests
  /\ served' = served + 1
  /\ variant' = [variant EXCEPT ![h] = v]
  /\ req' = [req EXCEPT ![h] = r]
  /\ client' = [client EXCEPT ![h] = "undefined"]
  /\ target' = [target EXCEPT ![h] = Null]
  /\ stmt' = [stmt EXCEPT ![h] = NoQuery]
  /\ result' = [result EXCEPT ![h] = NoResult]
  /\ thrown' = [thrown EXCEPT ![h] = Undefined]
  /\ snapshot' = [snapshot EXCEPT ![h] = db]
  /\ prior' = [prior EXCEPT ![h] =
                 IF pc[h] = "done" /\ v = variant[h] /\ r = req[h]
                   THEN response[h] ELSE NoResponse]
  /\ IF r.method # "POST" \/ r.url # "/publish"
       THEN /\ Respond(h, NotFoundRoute)
            /\ trace' = [trace EXCEPT ![h] = <<"respond">>]
            /\ pc' = [pc EXCEPT ![h] = "done"]
       ELSE /\ Respond(h, NoResponse)
            /\ trace' = [trace EXCEPT ![h] = << >>]
            /\ pc' = [pc EXCEPT ![h] = "reading"]
  /\ UNCHANGED <<db, now, acquires, releases, live>>

\* variant: the client is built with one fixed connection string
CallConnect_FixedUrl(h, url) ==
  /\ client' = [client EXCEPT ![h] = "connecting"]
  /\ target' = [target EXCEPT ![h] = ProcessEnv.STAGING_DB_URL]
  /\ acquires' = [acquires EXCEPT ![variant[h]] = @ + 1]
  /\ trace' = [trace EXCEPT ![h] = Append(@, "connect")]
  /\ pc' = [pc EXCEPT ![h] = "connecting"]
  /\ UNCHANGED <<response, releases>>

\* client = new Client({connectionString}); client.connect() is called
CallConnect(h, url) ==
  /\ client' = [client EXCEPT ![h] = "connecting"]
  /\ target' = [target EXCEPT ![h] = url]
  /\ acquires' = [acquires EXCEPT ![variant[h]] = @ + 1]
  /\ trace' = [trace EXCEPT ![h] = Append(@, "connect")]
  /\ pc' = [pc EXCEPT ![h] = "connecting"]
  /\ UNCHANGED <<response, releases>>

\* a return of res.end(...) before any client exists
RespondAndReturn(h, r) ==
  /\ Respond(h, r)
  /\ trace' = [trace EXCEPT ![h] = Append(@, "respond")]
  /\ pc' = [pc EXCEPT ![h] = "done"]
  /\ UNCHANGED <<client, target, acquires, releases>>

(***************************************************************************)
(* Upsert server (src/push-code-to-db.js)                                  *)
(***************************************************************************)
\* a response followed by the finally block of a handler whose client is set
\* (pre: what the datastore did just before, for the trace)
UpsertRespondFinally(h, pre, r) ==
  /\ Respond(h, r)
  /\ CallEnd(h)
  /\ trace' = [trace EXCEPT ![h] = @ \o pre \o <<"respond", "end">>]
  /\ pc' = [pc EXCEPT ![h] = "ending"]

\* variant: the required-field test looks at env only
UpsertValidate_NoAppIdTest(h) ==
  /\ pc[h] = "reading" /\ variant[h] = "upsert"
  /\ LET body == req[h].body
     IN IF req[h].json = "invalid"
          THEN RespondAndReturn(h, CatchReply(S("Invalid JSON")))
        ELSE IF req[h].json = "null"
          THEN RespondAndReturn(h, CatchReply(S("Cannot destructure")))
        ELSE IF ~Truthy(body.env)
          THEN RespondAndReturn(h,
                 Failure(400, S("Missing required fields: env, appId")))
        ELSE IF ~Truthy(getDbUrl(body.env))
          THEN RespondAndReturn(h, Failure(400, S("Invalid environment")))
        ELSE CallConnect(h, getDbUrl(body.env))
  /\ UNCHANGED <<thrown, snapshot, prior, db, now, served, variant, req, stmt, result, live>>

\* readBody settles; validation and routing up to client.connect()
UpsertValidate(h) ==
  /\ pc[h] = "reading" /\ variant[h] = "upsert"
  /\ LET body == req[h].body
     IN IF req[h].json = "invalid"
          THEN RespondAndReturn(h, CatchReply(S("Invalid JSON")))
        ELSE IF req[h].json = "null"
          THEN RespondAndReturn(h, CatchReply(S("Cannot destructure")))
        ELSE IF ~Truthy(body.env) \/ ~Truthy(body.appId)
          THEN RespondAndReturn(h,
                 Failure(400, S("Missing required fields: env, appId")))
        ELSE IF ~Truthy(getDbUrl(body.env))
          THEN RespondAndReturn(h, Failure(400, S("Invalid environment")))
        ELSE CallConnect(h, getDbUrl(body.env))
  /\ UNCHANGED <<thrown, snapshot, prior, db, now, served, variant, req, stmt, result, live>>

\* connect succeeded; the existence check is sent
UpsertConnected(h) ==
  /\ pc[h] = "connecting" /\ variant[h] = "upsert"
  /\ client' = [client EXCEPT ![h] = "connected"]
  /\ live' = [live EXCEPT !["upsert"] = @ + 1]
  /\ stmt' = [stmt EXCEPT ![h] = existsQuery(req[h].body)]
  /\ trace' = [trace EXCEPT ![h] = @ \o <<"connected", "select">>]
  /\ pc' = [pc EXCEPT ![h] = "selecting"]
  /\ UNCHANGED <<thrown, snapshot, prior, db, now, served, variant, req, target, result, response,
                 acquires, releases>>

\* connect rejected: catch, then finally with client set
UpsertConnectFailed(h, message) ==
  /\ pc[h] = "connecting" /\ variant[h] = "upsert"
  /\ client' = [client EXCEPT ![h] = "failed"]
  /\ UpsertRespondFinally(h, <<"rejected">>, CatchReply(message))
  /\ thrown' = [thrown EXCEPT ![h] = message]
  /\ UNCHANGED <<snapshot, prior, db, now, served, variant, req, target, stmt, result,
                 acquires, live>>

\* variant: only the three fields the error message names are tested
CreationFieldsMissing_NamedOnly(body) ==
  \/ ~Truthy(body.appName) \/ ~Truthy(body.appVersion)
  \/ ~Truthy(body.appCode)

\* the creation-field test of the insert branch
CreationFieldsMissing(body) ==
  \/ ~Truthy(body.appName) \/ ~Truthy(body.appVersion)
  \/ ~Truthy(body.appCode) \/ ~Truthy(body.hasTriggers)
  \/ ~Truthy(body.hasActions)

\* the existence check returned: branch to update or insert
UpsertSelected(h) ==
  /\ pc[h] = "selecting" /\ variant[h] = "upsert"
  /\ LET body == req[h].body
         existsResult == ExecSelect(db[target[h]], stmt[h].values)
     IN IF existsResult.rowCount > 0
          THEN IF Len(updates(body).updates) = 1
                 THEN /\ UpsertRespondFinally(h, << >>,
                           CatchReply(S("No fields provided to update")))
                      /\ UNCHANGED stmt
                 ELSE /\ stmt' = [stmt EXCEPT ![h] = updateQuery(body)]
                      /\ trace' = [trace EXCEPT ![h] = Append(@, "update")]
                      /\ pc' = [pc EXCEPT ![h] = "updating"]
                      /\ UNCHANGED <<response, releases>>
          ELSE IF CreationFieldsMissing(body)
                 THEN /\ UpsertRespondFinally(h, << >>, Failure(400,
                           S("appName, appVersion and appCode are required when creating a new app")))
                      /\ UNCHANGED stmt
                 ELSE /\ stmt' = [stmt EXCEPT ![h] = insertQuery(body)]
                      /\ trace' = [trace EXCEPT ![h] = Append(@, "insert")]
                      /\ pc' = [pc EXCEPT ![h] = "inserting"]
                      /\ UNCHANGED <<response, releases>>
  /\ result' = [result EXCEPT ![h] =
       [rowCount |-> ExecSelect(db[target[h]], stmt[h].values).rowCount,
        rows |-> << >>]]
  /\ UNCHANGED <<thrown, snapshot, prior, db, now, served, variant, req, client, target,
                 acquires, live>>

\* variant: the response is built from a row the result does not hold, so
\* the catch block responds after the UPDATE was committed
UpsertUpdated_Throws(h) ==
  /\ pc[h] = "updating" /\ variant[h] = "upsert"
  /\ LET res == ExecUpdate(db[target[h]], stmt[h], now)
     IN /\ db' = [db EXCEPT ![target[h]] = res.table]
        /\ UpsertRespondFinally(h, << >>,
             CatchReply(S("Cannot read properties of undefined")))
  /\ now' = now + 1
  /\ UNCHANGED <<thrown, snapshot, prior, served, variant, req, client, target, stmt, result,
                 acquires, live>>

\* the UPDATE returned: respond with the returned row
UpsertUpdated(h) ==
  /\ pc[h] = "updating" /\ variant[h] = "upsert"
  /\ LET res == ExecUpdate(db[target[h]], stmt[h], now)
     IN /\ db' = [db EXCEPT ![target[h]] = res.table]
        /\ UpsertRespondFinally(h, << >>,
             IF res.rows = << >> THEN HeadersOnly
             ELSE Reply(200, Bool(TRUE), Undefined, S("updated"),
                        req[h].body.env, res.rows[1].app_id,
                        res.rows[1].updated_at))
  /\ now' = now + 1
  /\ UNCHANGED <<thrown, snapshot, prior, served, variant, req, client, target, stmt, result,
                 acquires, live>>

\* variant: INSERT ... ON CONFLICT (app_id) DO UPDATE, so an INSERT of a key
\* the table holds overwrites the record and is answered as a creation
UpsertInserted_OnConflictUpdate(h) ==
  /\ pc[h] = "inserting" /\ variant[h] = "upsert"
  /\ LET old == db[target[h]]
         res == ExecInsert(<< >>, stmt[h], now)
         new == IF PrimaryKeyViolation(old, stmt[h])
                  THEN [i \in 1..Len(old) |->
                          IF old[i].app_id = res.rows[1].app_id
                            THEN res.rows[1] ELSE old[i]]
                  ELSE Append(old, res.rows[1])
     IN /\ db' = [db EXCEPT ![target[h]] = new]
        /\ UpsertRespondFinally(h, << >>,
             Reply(200, Bool(TRUE), Undefined, S("created"),
                   req[h].body.env, res.rows[1].app_id,
                   res.rows[1].created_at))
  /\ now' = now + 1
  /\ UNCHANGED <<thrown, snapshot, prior, served, variant, req, client, target, stmt, result,
                 acquires, live>>

\* the INSERT returned: respond with the returned row; an INSERT of a key
\* that another request created in the meantime rejects and the catch block
\* responds
UpsertInserted(h) ==
  /\ pc[h] = "inserting" /\ variant[h] = "upsert"
  /\ IF PrimaryKeyViolation(db[target[h]], stmt[h])
       THEN /\ UpsertRespondFinally(h, <<"rejected">>, CatchReply(DuplicateKey))
            /\ thrown' = [thrown EXCEPT ![h] = DuplicateKey]
            /\ UNCHANGED <<db, now>>
       ELSE /\ LET res == ExecInsert(db[target[h]], stmt[h], now)
               IN /\ db' = [db EXCEPT ![target[h]] = res.table]
                  /\ UpsertRespondFinally(h, << >>,
                       Reply(200, Bool(TRUE), Undefined, S("created"),
                             req[h].body.env, res.rows[1].app_id,
                             res.rows[1].created_at))
            /\ now' = now + 1
            /\ UNCHANGED thrown
  /\ UNCHANGED <<snapshot, prior, served, variant, req, client, target, stmt, result,
                 acquires, live>>

\* variant: the catch block responds and no finally block runs
UpsertQueryFailed_NoFinally(h, message) ==
  /\ pc[h] \in {"selecting", "updating", "inserting"}
  /\ variant[h] = "upsert"
  /\ Respond(h, CatchReply(message))
  /\ trace' = [trace EXCEPT ![h] = @ \o <<"rejected", "respond">>]
  /\ pc' = [pc EXCEPT ![h] = "done"]
  /\ thrown' = [thrown EXCEPT ![h] = message]
  /\ UNCHANGED <<snapshot, prior, db, now, served, variant, req, client,
                 target, stmt, result, acquires, releases, live>>

\* a query rejected: catch, then finally
UpsertQueryFailed(h, message) ==
  /\ pc[h] \in {"selecting", "updating", "inserting"}
  /\ variant[h] = "upsert"
  /\ UpsertRespondFinally(h, <<"rejected">>, CatchReply(message))
  /\ thrown' = [thrown EXCEPT ![h] = message]
  /\ UNCHANGED <<snapshot, prior, db, now, served, variant, req, client, target, stmt, result,
                 acquires, live>>

\* await client.end() of the finally block settles
UpsertEnded(h) ==
  /\ pc[h] = "ending" /\ variant[h] = "upsert"
  /\ live' = [live EXCEPT !["upsert"] =
                IF client[h] = "connected" THEN @ - 1 ELSE @]
  /\ client' = [client EXCEPT ![h] = "ended"]
  /\ pc' = [pc EXCEPT ![h] = "done"]
  /\ UNCHANGED <<thrown, snapshot, prior, db, now, served, variant, req, target, stmt, result,
                 response, trace, acquires, releases>>

(***************************************************************************)
(* Update-only server (src/unnamed/part_000)                               *)
(***************************************************************************)
\* readBody settles; validation and routing up to client.connect()
StrictValidate(h) ==
  /\ pc[h] = "reading" /\ variant[h] = "strict"
  /\ LET body == req[h].body
     IN IF req[h].json = "invalid"
          THEN RespondAndReturn(h, CatchReply(S("Invalid JSON")))
        ELSE IF req[h].json = "null"
          THEN RespondAndReturn(h, CatchReply(S("Cannot destructure")))
        ELSE IF ~Truthy(body.env) \/ ~Truthy(body.appId)
                \/ ~Truthy(body.appCode)
          THEN RespondAndReturn(h,
                 Failure(400, S("Missing required fields: env, appId, appCode")))
        ELSE IF ~Truthy(getDbUrl(body.env))
          THEN RespondAndReturn(h, Failure(400, S("Invalid environment")))
        ELSE CallConnect(h, getDbUrl(body.env))
  /\ UNCHANGED <<thrown, snapshot, prior, db, now, served, variant, req, stmt, result, live>>

\* connect succeeded; the UPDATE is sent
StrictConnected(h) ==
  /\ pc[h] = "connecting" /\ variant[h] = "strict"
  /\ client' = [client EXCEPT ![h] = "connected"]
  /\ live' = [live EXCEPT !["strict"] = @ + 1]
  /\ stmt' = [stmt EXCEPT ![h] = query(req[h].body)]
  /\ trace' = [trace EXCEPT ![h] = @ \o <<"connected", "update">>]
  /\ pc' = [pc EXCEPT ![h] = "updating"]
  /\ UNCHANGED <<thrown, snapshot, prior, db, now, served, variant, req, target, result, response,
                 acquires, releases>>

\* connect rejected: the catch block responds, nothing else runs
StrictConnectFailed(h, message) ==
  /\ pc[h] = "connecting" /\ variant[h] = "strict"
  /\ client' = [client EXCEPT ![h] = "failed"]
  /\ Respond(h, CatchReply(message))
  /\ trace' = [trace EXCEPT ![h] = @ \o <<"rejected", "respond">>]
  /\ pc' = [pc EXCEPT ![h] = "done"]
  /\ thrown' = [thrown EXCEPT ![h] = message]
  /\ UNCHANGED <<snapshot, prior, db, now, served, variant, req, target, stmt, result,
                 acquires, releases, live>>

\* the UPDATE returned; client.end() is called and awaited
StrictUpdated(h) ==
  /\ pc[h] = "updating" /\ variant[h] = "strict"
  /\ LET res == ExecUpdate(db[target[h]], stmt[h], now)
     IN /\ db' = [db EXCEPT ![target[h]] = res.table]
        /\ result' = [result EXCEPT ![h] =
                        [rowCount |-> res.rowCount, rows |-> res.rows]]
  /\ now' = now + 1
  /\ CallEnd(h)
  /\ trace' = [trace EXCEPT ![h] = Append(@, "end")]
  /\ pc' = [pc EXCEPT ![h] = "ending"]
  /\ UNCHANGED <<thrown, snapshot, prior, served, variant, req, client, target, stmt, response,
                 acquires, live>>

\* the UPDATE rejected: the catch block responds, client.end() is not called
StrictQueryFailed(h, message) ==
  /\ pc[h] = "updating" /\ variant[h] = "strict"
  /\ Respond(h, CatchReply(message))
  /\ trace' = [trace EXCEPT ![h] = @ \o <<"rejected", "respond">>]
  /\ pc' = [pc EXCEPT ![h] = "done"]
  /\ thrown' = [thrown EXCEPT ![h] = message]
  /\ UNCHANGED <<snapshot, prior, db, now, served, variant, req, client, target, stmt, result,
                 acquires, releases, live>>

\* variant: the rowCount test is missing, so result.rows[0] of an empty
\* result throws and the catch block responds
StrictEnded_NoRowCountTest(h) ==
  /\ pc[h] = "ending" /\ variant[h] = "strict"
  /\ live' = [live EXCEPT !["strict"] = @ - 1]
  /\ client' = [client EXCEPT ![h] = "ended"]
  /\ Respond(h,
       IF result[h].rowCount = 0
         THEN CatchReply(S("Cannot read properties of undefined"))
       ELSE Reply(200, Bool(TRUE), Undefined, Undefined, req[h].body.env,
                  result[h].rows[1].app_id, result[h].rows[1].updated_at))
  /\ trace' = [trace EXCEPT ![h] = Append(@, "respond")]
  /\ pc' = [pc EXCEPT ![h] = "done"]
  /\ UNCHANGED <<thrown, snapshot, prior, db, now, served, variant, req, target,
                 stmt, result, acquires, releases>>

\* await client.end() settles; respond not found or success
StrictEnded(h) ==
  /\ pc[h] = "ending" /\ variant[h] = "strict"
  /\ live' = [live EXCEPT !["strict"] = @ - 1]
  /\ client' = [client EXCEPT ![h] = "ended"]
  /\ Respond(h,
       IF result[h].rowCount = 0 THEN Failure(404, S("App not found"))
       ELSE Reply(200, Bool(TRUE), Undefined, Undefined, req[h].body.env,
                  result[h].rows[1].app_id, result[h].rows[1].updated_at))
  /\ trace' = [trace EXCEPT ![h] = Append(@, "respond")]
  /\ pc' = [pc EXCEPT ![h] = "done"]
  /\ UNCHANGED <<thrown, snapshot, prior, db, now, served, variant, req, target, stmt, result,
                 acquires, releases>>

(***************************************************************************)
(* Specification                                                           *)
(***************************************************************************)
Next ==
  \/ \E h \in Handlers, v \in Variants : \E r \in RequestsOf(v, served) : Receive(h, v, r)
  \/ \E h \in Handlers : UpsertValidate(h)
  \/ \E h \in Handlers : UpsertConnected(h)
  \/ \E h \in Handlers, m \in DbErrors : UpsertConnectFailed(h, m)
  \/ \E h \in Handlers : UpsertSelected(h)
  \/ \E h \in Handlers : UpsertUpdated(h)
  \/ \E h \in Handlers : UpsertInserted(h)
  \/ \E h \in Handlers, m \in DbErrors : UpsertQueryFailed(h, m)
  \/ \E h \in Handlers : UpsertEnded(h)
  \/ \E h \in Handlers : StrictValidate(h)
  \/ \E h \in Handlers : StrictConnected(h)
  \/ \E h \in Handlers, m \in DbErrors : StrictConnectFailed(h, m)
  \/ \E h \in Handlers : StrictUpdated(h)
  \/ \E h \in Handlers, m \in DbErrors : StrictQueryFailed(h, m)
  \/ \E h \in Handlers : StrictEnded(h)

Spec == Init /\ [][Next]_vars

TypeOK ==
  /\ served \in 0..MaxRequests
  /\ \A h \in Handlers : pc[h] \in {"idle", "reading", "connecting",
        "selecting", "updating", "inserting", "ending", "done"}
  /\ \A h \in Handlers : thrown[h] \in DbErrors \cup {DuplicateKey, Undefined}

(***************************************************************************)
(* Concurrent requests: the server starts a request callback for every     *)
(* inbound request, and callbacks interleave at their awaits.  Two         *)
(* callbacks are in flight at a time; each owns its locals (client, body)  *)
(* and shares only the datastores.                                         *)
(***************************************************************************)
ConcHandlers == {1, 2}

\* the descriptors of the concurrent runs: a creation, a partial update of
\* the same appId, a creation of another appId, and the first creation sent
\* to another environment and to an unknown one
RaceBodies(v) ==
  IF v = "upsert"
    THEN {BaseBody, PartialBody(S("staging"), S("a1"), {"appCode"}),
          [BaseBody EXCEPT !.appId = S("a2")],
          [BaseBody EXCEPT !.env = S("production")],
          [BaseBody EXCEPT !.env = S("dev")]}
    ELSE {PartialBody(S("staging"), S("a1"), {"appCode"})}

RaceRequests(v) == {Request("POST", "/publish", "object", b) : b \in RaceBodies(v)}

InitConc ==
  /\ db \in InitialDbs
  /\ now = 1
  /\ served = 0
  /\ pc = [h \in ConcHandlers |-> "idle"]
  /\ variant = [h \in ConcHandlers |-> "upsert"]
  /\ req = [h \in ConcHandlers |-> Request("GET", "/", "invalid", Undefined)]
  /\ client = [h \in ConcHandlers |-> "undefined"]
  /\ target = [h \in ConcHandlers |-> Null]
  /\ stmt = [h \in ConcHandlers |-> NoQuery]
  /\ result = [h \in ConcHandlers |-> NoResult]
  /\ response = [h \in ConcHandlers |-> NoResponse]
  /\ trace = [h \in ConcHandlers |-> << >>]
  /\ acquires = [v \in Variants |-> 0]
  /\ releases = [v \in Variants |-> 0]
  /\ live = [v \in Variants |-> 0]
  /\ thrown = [h \in ConcHandlers |-> Undefined]
  /\ snapshot = [h \in ConcHandlers |-> db]
  /\ prior = [h \in ConcHandlers |-> NoResponse]

NextConc ==
  \/ \E h \in ConcHandlers, v \in Variants : \E r \in RaceRequests(v) : Receive(h, v, r)
  \/ \E h \in ConcHandlers : UpsertValidate(h)
  \/ \E h \in ConcHandlers : UpsertConnected(h)
  \/ \E h \in ConcHandlers, m \in DbErrors : UpsertConnectFailed(h, m)
  \/ \E h \in ConcHandlers : UpsertSelected(h)
  \/ \E h \in ConcHandlers : UpsertUpdated(h)
  \/ \E h \in ConcHandlers : UpsertInserted(h)
  \/ \E h \in ConcHandlers, m \in DbErrors : UpsertQueryFailed(h, m)
  \/ \E h \in ConcHandlers : UpsertEnded(h)
  \/ \E h \in ConcHandlers : StrictValidate(h)
  \/ \E h \in ConcHandlers : StrictConnected(h)
  \/ \E h \in ConcHandlers, m \in DbErrors : StrictConnectFailed(h, m)
  \/ \E h \in ConcHandlers : StrictUpdated(h)
  \/ \E h \in ConcHandlers, m \in DbErrors : StrictQueryFailed(h, m)
  \/ \E h \in ConcHandlers : StrictEnded(h)

SpecConc == InitConc /\ [][NextConc]_vars

TypeOKConc ==
  /\ served \in 0..MaxRequests
  /\ DOMAIN pc = ConcHandlers
  /\ \A h \in ConcHandlers : thrown[h] \in DbErrors \cup {DuplicateKey, Undefined}

(***************************************************************************)
(* Vocabulary of the properties                                            *)
(***************************************************************************)
Count(seq, e) == Cardinality({i \in 1..Len(seq) : seq[i] = e})

Occurs(seq, e) == \E i \in 1..Len(seq) : seq[i] = e

\* position of the first e in seq, 0 when there is none
Pos(seq, e) ==
  IF Occurs(seq, e) THEN CHOOSE i \in 1..Len(seq) :
                           seq[i] = e /\ \A j \in 1..(i - 1) : seq[j] # e
  ELSE 0

\* no handler of server v is in the middle of a request
Quiescent(v) == \A h \in Handlers : variant[h] = v => pc[h] \in {"idle", "done"}

\* handler h has finished a publish call whose body was a JSON object
Published(h) ==
  /\ pc[h] = "done"
  /\ req[h].method = "POST" /\ req[h].url = "/publish"
  /\ req[h].json = "object"

\* the datastore rejected the connect or a query of the request
Rejected(h) == Occurs(trace[h], "rejected")

\* the fields of a descriptor that are present
Supplied(body) == {f \in FieldNames : body[f] # Undefined}

ValidEnvs == {S("prestaging"), S("staging"), S("production")}

\* result classes at the boundary
IsCreated(r) == r.status = 200 /\ r.success = Bool(TRUE) /\ r.action = S("created")
IsUpdated(r) == r.status = 200 /\ r.success = Bool(TRUE) /\ r.action = S("updated")
IsValidationFailed(r) == r.status = 400 /\ r.success = Bool(FALSE)
IsUnknownEnvironment(r) == r = Failure(400, S("Invalid environment"))
IsStoreFailure(r) == r.status = 500 /\ r.success = Bool(FALSE)

\* the request touched no datastore: no connect, no statement, no end
NoDatastoreIO(h) == trace[h] = <<"respond">>

(***************************************************************************)
(* C1: upsert handler: a request calls connect at most once, and when the  *)
(* handler has finished every connect has its end: per request and summed  *)
(* over all requests releases equal acquires and no connection stays open. *)
(***************************************************************************)
C1_UpsertReleaseEqualsAcquire ==
  /\ \A h \in Handlers : variant[h] = "upsert" =>
       /\ Count(trace[h], "connect") <= 1
       /\ Count(trace[h], "end") <= Count(trace[h], "connect")
       /\ pc[h] = "done" =>
            /\ Count(trace[h], "end") = Count(trace[h], "connect")
            /\ client[h] # "connected"
  /\ Quiescent("upsert") =>
       /\ releases["upsert"] = acquires["upsert"]
       /\ live["upsert"] = 0

\* two upsert requests opened a connection, the second one failing in a query
C1_Witness ==
  \E h \in Handlers :
    /\ variant[h] = "upsert" /\ pc[h] = "done"
    /\ Occurs(trace[h], "connected") /\ Rejected(h)
    /\ response[h].status = 500
    /\ acquires["upsert"] = 2 /\ releases["upsert"] = 2

(***************************************************************************)
(* C2: update-only handler: when the handler has finished, the connection  *)
(* the request opened has been released exactly once, and no connection of *)
(* this server stays open once its handlers are idle.                      *)
(***************************************************************************)
C2_StrictReleaseEqualsAcquire ==
  /\ \A h \in Handlers :
       variant[h] = "strict" /\ pc[h] = "done" /\ Occurs(trace[h], "connected")
         => Count(trace[h], "end") = 1
  /\ Quiescent("strict") => live["strict"] = 0

(***************************************************************************)
(* C3: once a request that opened a connection has its response, the       *)
(* release of the connection precedes the response.                        *)
(***************************************************************************)
C3_ReleaseBeforeResponse ==
  \A h \in Handlers :
    Occurs(trace[h], "connected") /\ Occurs(trace[h], "respond")
      => /\ Occurs(trace[h], "end")
         /\ Pos(trace[h], "end") < Pos(trace[h], "respond")

(***************************************************************************)
(* C4 as stated: a publish whose env is not one of the three environments  *)
(* resolves to no endpoint and is answered UnknownEnvironment with no      *)
(* datastore I/O and every store unchanged.                                *)
(***************************************************************************)
C4_UnknownEnvironment ==
  \A h \in Handlers :
    Published(h) /\ req[h].body.env \notin ValidEnvs
      => /\ getDbUrl(req[h].body.env) = Null
         /\ IsUnknownEnvironment(response[h])
         /\ NoDatastoreIO(h)
         /\ db = snapshot[h]

\* the fields both servers require before routing
RequiredMissing(h) ==
  \/ ~Truthy(req[h].body.env) \/ ~Truthy(req[h].body.appId)
  \/ variant[h] = "strict" /\ ~Truthy(req[h].body.appCode)

(***************************************************************************)
(* C4 amended: such a publish resolves to no endpoint and is answered 400  *)
(* with no datastore I/O and every store unchanged; the answer is          *)
(* "Invalid environment" when env is non-empty and the other required      *)
(* fields are present, and the missing-required-fields failure otherwise.  *)
(***************************************************************************)
C4_UnknownEnvironmentAmended ==
  \A h \in Handlers :
    Published(h) /\ req[h].body.env \notin ValidEnvs
      => /\ getDbUrl(req[h].body.env) = Null
         /\ IsValidationFailed(response[h])
         /\ IsUnknownEnvironment(response[h]) <=> ~RequiredMissing(h)
         /\ NoDatastoreIO(h)
         /\ client[h] = "undefined"
         /\ db = snapshot[h]

\* env "dev" with appId present was answered Invalid environment
C4_Witness ==
  \E h \in Handlers :
    /\ Published(h) /\ variant[h] = "upsert"
    /\ req[h].body.env = S("dev") /\ Truthy(req[h].body.appId)
    /\ IsUnknownEnvironment(response[h])
    /\ db[ProcessEnv.STAGING_DB_URL] # << >>

(***************************************************************************)
(* C5: a publish whose descriptor has no appId is answered 400 (bad        *)
(* request), in both servers, and the request opens no connection and      *)
(* issues no statement; the stores are as they were.                       *)
(***************************************************************************)
C5_MissingAppId ==
  \A h \in Handlers :
    Published(h) /\ req[h].body.appId = Undefined
      => /\ IsValidationFailed(response[h])
         /\ NoDatastoreIO(h)
         /\ client[h] = "undefined"
         /\ db = snapshot[h]

\* a descriptor with a valid env and no appId was rejected
C5_Witness ==
  \E h \in Handlers :
    /\ Published(h) /\ req[h].body.appId = Undefined
    /\ req[h].body.env = S("staging")
    /\ response[h].status = 400

(***************************************************************************)
(* Vocabulary of the record properties                                     *)
(***************************************************************************)
\* the column that stores a descriptor field
FieldColumn ==
  [appName |-> "app_name", appVersion |-> "app_version",
   appCode |-> "app_code", hasTriggers |-> "has_triggers",
   hasActions |-> "has_actions", gitSha |-> "git_sha", tags |-> "tags"]

CreationFields == {"appName", "appVersion", "appCode", "hasTriggers", "hasActions"}

AbsentOrFalsy(v) == v \in {Undefined, Null, EmptyStr, Bool(FALSE)}

\* handler h has finished an upsert publish that no datastore call rejected
UpsertPublished(h) == Published(h) /\ variant[h] = "upsert" /\ ~Rejected(h)

\* the records for the descriptor's appId in the store the request went to,
\* now and when the request arrived
RowsNow(h) == RowsOf(db[target[h]], req[h].body.appId)
RowsBefore(h) == RowsOf(snapshot[h][target[h]], req[h].body.appId)

\* every record other than those of key in the store at url is as it was
OthersUnchanged(h, url, key) ==
  /\ \A u \in Endpoints \ {url} : db[u] = snapshot[h][u]
  /\ Len(db[url]) = Len(snapshot[h][url])
  /\ \A i \in 1..Len(db[url]) :
       snapshot[h][url][i].app_id # key => db[url][i] = snapshot[h][url][i]

(***************************************************************************)
(* C6: an upsert publish of a descriptor supplying all seven updatable     *)
(* fields, on a store with no record for its appId, is answered Created;   *)
(* the same descriptor published again right after is answered Updated,    *)
(* and then exactly one record has that appId and each updatable field of  *)
(* it equals the descriptor's value.                                       *)
(***************************************************************************)
C6_UpsertIdempotence ==
  \A h \in Handlers :
    UpsertPublished(h) /\ Supplied(req[h].body) = FieldNames
      => /\ result[h].rowCount = 0 => IsCreated(response[h])
         /\ IsCreated(prior[h]) =>
              /\ IsUpdated(response[h])
              /\ Len(RowsNow(h)) = 1
              /\ \A f \in FieldNames :
                   RowsNow(h)[1][FieldColumn[f]] = req[h].body[f]

(***************************************************************************)
(* C7: the scenario.  The descriptor with hasTriggers true and hasActions  *)
(* false on an empty staging store is answered Created for a1; the         *)
(* descriptor with only appVersion "1.1" on the record is then answered    *)
(* Updated with updatedAt later than the record's createdAt, the record    *)
(* having appVersion "1.1" and the appName it had.                         *)
(***************************************************************************)
C7_Scenario ==
  \A h \in Handlers :
    UpsertPublished(h)
      => /\ req[h].body = ScenarioBody
              /\ snapshot[h][ProcessEnv.STAGING_DB_URL] = << >>
            => IsCreated(response[h]) /\ response[h].appId = S("a1")
         /\ req[h].body = PartialBody(S("staging"), S("a1"), {"appVersion"})
              /\ result[h].rowCount > 0
            => /\ IsUpdated(response[h])
               /\ response[h].at > RowsBefore(h)[1].created_at
               /\ RowsNow(h)[1].app_version = S("1.1")
               /\ RowsNow(h)[1].app_name = RowsBefore(h)[1].app_name

(***************************************************************************)
(* C8: an upsert publish that finds the record and supplies a non-empty    *)
(* set of updatable fields is answered Updated with the record's appId and *)
(* new updatedAt; each supplied field is stored with the descriptor's      *)
(* value for that field, updatedAt has advanced, and every other field of  *)
(* the record, its createdAt and appId, and every other record are as they *)
(* were when the request arrived.                                          *)
(***************************************************************************)
C8_PartialUpdateIsolation ==
  \A h \in Handlers :
    UpsertPublished(h) /\ result[h].rowCount > 0
      /\ Supplied(req[h].body) # {}
      => /\ Len(RowsNow(h)) = 1 /\ Len(RowsBefore(h)) = 1
         /\ IsUpdated(response[h])
         /\ response[h].appId = req[h].body.appId
         /\ response[h].at = RowsNow(h)[1].updated_at
         /\ \A f \in FieldNames :
              RowsNow(h)[1][FieldColumn[f]] =
                IF f \in Supplied(req[h].body) THEN req[h].body[f]
                ELSE RowsBefore(h)[1][FieldColumn[f]]
         /\ RowsNow(h)[1].updated_at > RowsBefore(h)[1].updated_at
         /\ RowsNow(h)[1].created_at = RowsBefore(h)[1].created_at
         /\ RowsNow(h)[1].app_id = RowsBefore(h)[1].app_id
         /\ OthersUnchanged(h, target[h], req[h].body.appId)

\* only gitSha was supplied and only git_sha and updated_at changed
C8_Witness ==
  \E h \in Handlers :
    /\ UpsertPublished(h) /\ Supplied(req[h].body) = {"gitSha"}
    /\ IsUpdated(response[h])
    /\ RowsBefore(h)[1].git_sha = S("sha0")
    /\ RowsNow(h)[1].git_sha = S("sha1")
    /\ RowsNow(h)[1].app_code = S("code")

(***************************************************************************)
(* C9: an upsert publish that finds the record and supplies no updatable   *)
(* field is answered with the bad-request failure, issues no UPDATE and    *)
(* leaves every record as it was.                                          *)
(***************************************************************************)
C9_EmptyUpdateRejected ==
  \A h \in Handlers :
    UpsertPublished(h) /\ result[h].rowCount > 0
      /\ Supplied(req[h].body) = {}
      => /\ IsValidationFailed(response[h])
         /\ ~Occurs(trace[h], "update")
         /\ db = snapshot[h]

(***************************************************************************)
(* C10: an upsert publish that finds no record and whose descriptor has    *)
(* one of the five creation fields absent or falsy is answered with the    *)
(* bad-request failure, sends no INSERT, and the store has no record for   *)
(* that appId afterwards.                                                  *)
(***************************************************************************)
C10_CreationFieldsEnforced ==
  \A h \in Handlers :
    UpsertPublished(h) /\ result[h].rowCount = 0
      /\ (\E f \in CreationFields : AbsentOrFalsy(req[h].body[f]))
      => /\ IsValidationFailed(response[h])
         /\ ~Occurs(trace[h], "insert")
         /\ RowsNow(h) = << >>
         /\ db = snapshot[h]

\* a creation with hasTriggers false was refused after the existence check
C10_Witness ==
  \E h \in Handlers :
    /\ UpsertPublished(h) /\ result[h].rowCount = 0
    /\ req[h].body.hasTriggers = Bool(FALSE)
    /\ Truthy(req[h].body.appName) /\ Truthy(req[h].body.hasActions)
    /\ response[h].status = 400
    /\ Occurs(trace[h], "select")

(***************************************************************************)
(* C11: update-only server: a publish for an appId that has no record in   *)
(* the target store is answered NotFound and changes nothing; no request   *)
(* of this server sends an INSERT, and the appIds present in every store   *)
(* (and the number of records) are those present when the request arrived. *)
(***************************************************************************)
AppIdsOf(d) == [u \in Endpoints |-> {d[u][i].app_id : i \in 1..Len(d[u])}]

IsNotFound(r) ==
  r.status = 404 /\ r.success = Bool(FALSE) /\ r.error = S("App not found")

C11_StrictNeverCreates ==
  \A h \in DOMAIN pc :
    variant[h] = "strict" /\ pc[h] # "idle"
      => /\ ~Occurs(trace[h], "insert")
         /\ AppIdsOf(db) = AppIdsOf(snapshot[h])
         /\ \A u \in Endpoints : Len(db[u]) = Len(snapshot[h][u])
         /\ Published(h) /\ target[h] # Null /\ ~Rejected(h)
              /\ RowsBefore(h) = << >>
            => IsNotFound(response[h]) /\ db = snapshot[h]

\* appId a3 was published to a staging store that holds a1 and a2 only
C11_Witness ==
  \E h \in DOMAIN pc :
    /\ Published(h) /\ variant[h] = "strict"
    /\ req[h].body.appId = S("a3")
    /\ Len(db[ProcessEnv.STAGING_DB_URL]) = 2
    /\ response[h].status = 404
    /\ Occurs(trace[h], "update")


(***************************************************************************)
(* C14: no retry.  When the datastore rejects the connect or a statement   *)
(* of a call, the call is answered StoreFailure carrying the datastore's   *)
(* error message and sends nothing more to the datastore: no new connect   *)
(* and no statement follows the rejection.  Every call sends at most one   *)
(* connect, at most one existence check and at most one write.             *)
(***************************************************************************)
Statements == {"connect", "select", "update", "insert"}

C14_NoRetry ==
  \A h \in DOMAIN pc :
    /\ Count(trace[h], "connect") <= 1
    /\ Count(trace[h], "select") <= 1
    /\ Count(trace[h], "update") + Count(trace[h], "insert") <= 1
    /\ Count(trace[h], "rejected") <= 1
    /\ Rejected(h) =>
         /\ IsStoreFailure(response[h])
         /\ thrown[h] # Undefined
         /\ Truthy(thrown[h]) => response[h].error = thrown[h]
         /\ \A i \in 1..Len(trace[h]) :
              i > Pos(trace[h], "rejected") => trace[h][i] \notin Statements

\* a write the datastore rejected after the existence check went through
C14_Witness ==
  \E h \in DOMAIN pc :
    /\ pc[h] = "done" /\ variant[h] = "upsert"
    /\ Rejected(h)
    /\ Occurs(trace[h], "select") /\ Occurs(trace[h], "update")
    /\ Pos(trace[h], "update") < Pos(trace[h], "rejected")
    /\ response[h].error = S("db error")
    /\ db = snapshot[h]

(***************************************************************************)
(* C16: update-only handler: once its UPDATE has run on a store holding    *)
(* the record keyed by the descriptor's appId, that record has the         *)
(* descriptor's appCode and a new updatedAt, every other field of it is    *)
(* as it was when the request arrived, and so is every other record of     *)
(* every store.                                                            *)
(***************************************************************************)
C16_StrictUpdateFrame ==
  \A h \in DOMAIN pc :
    /\ variant[h] = "strict" /\ pc[h] \in {"ending", "done"}
    /\ target[h] # Null /\ ~Rejected(h)
    /\ Len(RowsBefore(h)) = 1
    => /\ Len(RowsNow(h)) = 1
       /\ RowsNow(h)[1].app_code = req[h].body.appCode
       /\ RowsNow(h)[1].updated_at > RowsBefore(h)[1].updated_at
       /\ RowsNow(h)[1] =
            [RowsBefore(h)[1] EXCEPT !.app_code = req[h].body.appCode,
                                     !.updated_at = RowsNow(h)[1].updated_at]
       /\ OthersUnchanged(h, target[h], req[h].body.appId)

\* a strict publish replaced the code of a1 while a2 sits in the same store
C16_Witness ==
  \E h \in DOMAIN pc :
    /\ Published(h) /\ variant[h] = "strict"
    /\ response[h].status = 200
    /\ Len(RowsBefore(h)) = 1
    /\ RowsNow(h)[1].app_code # RowsBefore(h)[1].app_code
    /\ RowsNow(h)[1].app_name = S("svc")
    /\ Len(db[target[h]]) = 2

(***************************************************************************)
(* C17: in the INSERT of a creation, the value bound for tags is the       *)
(* serialization of the descriptor's tags when tags is supplied and the    *)
(* serialization of the empty collection when tags is absent, and the      *)
(* value bound for gitSha is null when gitSha is absent.                   *)
(***************************************************************************)
Absent(v) == v \in {Undefined, Null}

C17_TagsBoundSerialized ==
  \A h \in DOMAIN pc :
    variant[h] = "upsert" /\ pc[h] = "inserting"
      => LET body == req[h].body
             bound(c) ==
               stmt[h].values[CHOOSE j \in 1..Len(stmt[h].columns) :
                                stmt[h].columns[j] = c]
         IN /\ bound("tags") =
                 IF Absent(body.tags) THEN JSONStringify(Arr(<< >>))
                 ELSE JSONStringify(body.tags)
            /\ Absent(body.gitSha) => bound("git_sha") = Null

(***************************************************************************)
(* C19: in both handlers, a call answered with success false has status    *)
(* 400, 404 or 500 and leaves the records of every store as they were      *)
(* when the call arrived; a call that changed a record is answered with    *)
(* success true.                                                           *)
(***************************************************************************)
Answered(h) == response[h] # NoResponse

C19_FailureLeavesStores ==
  \A h \in DOMAIN pc :
    /\ Answered(h) /\ response[h].success = Bool(FALSE)
         => response[h].status \in {400, 404, 500} /\ db = snapshot[h]
    /\ pc[h] = "done" => Answered(h)
    /\ Answered(h) /\ db # snapshot[h] => response[h].success = Bool(TRUE)

\* an INSERT the datastore rejected, on a store that holds other records
C19_Witness ==
  \E h \in DOMAIN pc :
    /\ Published(h) /\ variant[h] = "upsert"
    /\ Occurs(trace[h], "insert") /\ Rejected(h)
    /\ response[h].status = 500 /\ response[h].success = Bool(FALSE)
    /\ \E u \in Endpoints : db[u] # << >>
    /\ db = snapshot[h]

(***************************************************************************)
(* C12: environment isolation.  In every step of every interleaving of     *)
(* concurrent publishes, a handler that has opened a connection has opened *)
(* it to the endpoint configured for the env of its descriptor and to no   *)
(* other, and the step of a handler leaves the records of the stores of    *)
(* the other environments as they were.                                    *)
(***************************************************************************)
\* the endpoint configured for an env tag, Null for any other value
EndpointOf(e) ==
  IF e = S("prestaging") THEN ProcessEnv.PRESTAGING_DB_URL
  ELSE IF e = S("staging") THEN ProcessEnv.STAGING_DB_URL
  ELSE IF e = S("production") THEN ProcessEnv.PRODUCTION_DB_URL
  ELSE Null

\* the handler h takes the step
StepOf(h) == pc'[h] # pc[h]

C12_IsolationStep ==
  \A h \in DOMAIN pc :
    /\ req'[h].json = "object" /\ Occurs(trace'[h], "connect")
         => /\ target'[h] = EndpointOf(req'[h].body.env)
            /\ target'[h] \in Endpoints
            /\ Count(trace'[h], "connect") = 1
    /\ req'[h].json # "object" => ~Occurs(trace'[h], "connect")
    /\ StepOf(h) =>
         \A u \in Endpoints :
           db'[u] # db[u] => req'[h].json = "object"
                              /\ u = EndpointOf(req'[h].body.env)

C12_EnvironmentIsolation == [][C12_IsolationStep]_vars

\* two overlapping publishes, one to staging and one to production, both
\* wrote, and the prestaging store was never touched
C12_Witness ==
  \E h, g \in DOMAIN pc :
    /\ Published(h) /\ Published(g)
    /\ target[h] = ProcessEnv.STAGING_DB_URL
    /\ target[g] = ProcessEnv.PRODUCTION_DB_URL
    /\ response[h].success = Bool(TRUE) /\ response[g].success = Bool(TRUE)
    /\ snapshot[h] = snapshot[g]
    /\ db[ProcessEnv.STAGING_DB_URL] # snapshot[h][ProcessEnv.STAGING_DB_URL]
    /\ db[ProcessEnv.PRODUCTION_DB_URL] # << >>
    /\ db[ProcessEnv.PRESTAGING_DB_URL] = << >>

(***************************************************************************)
(* C13: record lifecycle.  In every reachable state of every interleaving  *)
(* of publishes each store holds at most one record per appId, and every   *)
(* step keeps every record that exists: the store holds a record with the  *)
(* same appId and the same creation time afterwards.                       *)
(***************************************************************************)
UniquePerStore ==
  \A u \in Endpoints :
    \A i, j \in 1..Len(db[u]) : db[u][i].app_id = db[u][j].app_id => i = j

RecordsPersist ==
  \A u \in Endpoints :
    \A i \in 1..Len(db[u]) :
      \E j \in 1..Len(db'[u]) :
        /\ db'[u][j].app_id = db[u][i].app_id
        /\ db'[u][j].created_at = db[u][i].created_at

C13_RecordLifecycle == []UniquePerStore /\ [][RecordsPersist]_vars

\* a record created in this run was then mutated in place by an overlapping
\* publish, while some store holds records of two appIds
C13_Witness ==
  \E h, g \in DOMAIN pc :
    /\ Published(h) /\ Published(g)
    /\ IsCreated(response[h]) /\ IsUpdated(response[g])
    /\ target[h] = target[g] /\ response[h].appId = response[g].appId
    /\ RowsOf(snapshot[g][target[g]], req[g].body.appId) = << >>
    /\ Len(RowsNow(h)) = 1
    /\ RowsNow(h)[1].created_at = response[h].at
    /\ RowsNow(h)[1].updated_at = response[g].at
    /\ \E u \in Endpoints : Len(db[u]) >= 2

(***************************************************************************)
(* C15: upsert handler, update branch.  Under every interleaving with      *)
(* other publishes, the step in which the UPDATE of a handler returns      *)
(* changes exactly one record of the store, the record keyed by the        *)
(* descriptor's appId, and answers Updated with that record's appId and    *)
(* new updatedAt.                                                          *)
(***************************************************************************)
C15_UpdateStep ==
  \A h \in DOMAIN pc :
    /\ variant[h] = "upsert" /\ pc[h] = "updating" /\ pc'[h] = "ending"
    /\ ~Rejected(h)'
    => LET u == target[h]
           changed == {i \in 1..Len(db[u]) : db'[u][i] # db[u][i]}
       IN /\ result[h].rowCount > 0
          /\ Len(db'[u]) = Len(db[u])
          /\ Cardinality(changed) = 1
          /\ \A i \in changed :
               /\ db[u][i].app_id = req[h].body.appId
               /\ IsUpdated(response'[h])
               /\ response'[h].appId = db'[u][i].app_id
               /\ response'[h].at = db'[u][i].updated_at
               /\ db'[u][i].updated_at > db[u][i].updated_at

C15_UpdateAffectsOneRow == [][C15_UpdateStep]_vars

\* the record was rewritten by another publish between the existence check
\* and the UPDATE of this one, in a store that holds another record too
C15_Witness ==
  \E h, g \in DOMAIN pc :
    /\ h # g
    /\ Published(h) /\ Published(g)
    /\ variant[h] = "upsert" /\ IsUpdated(response[h])
    /\ response[g].success = Bool(TRUE)
    /\ target[g] = target[h] /\ response[g].appId = response[h].appId
    /\ snapshot[h] = snapshot[g]
    /\ response[g].at < response[h].at
    /\ Len(db[target[h]]) = 2

(***************************************************************************)
(* C18: two upsert publishes that carry every creation field for the same  *)
(* appId, absent from the store of their env when each of them arrived,    *)
(* and that have both finished: never both answered Created; each is       *)
(* answered Created, Updated or StoreFailure; the store holds at most one  *)
(* record for the appId; and when the datastore rejected nothing but a     *)
(* duplicate key, exactly one is answered Created and exactly one record   *)
(* exists.                                                                 *)
(***************************************************************************)
Creating(h) ==
  /\ Published(h) /\ variant[h] = "upsert"
  /\ req[h].body.appId # Undefined
  /\ ~CreationFieldsMissing(req[h].body)
  /\ target[h] # Null
  /\ RowsBefore(h) = << >>

OnlyDuplicateKeyRejected(h) == Rejected(h) => thrown[h] = DuplicateKey

C18_ConcurrentCreate ==
  \A h, g \in DOMAIN pc :
    /\ h # g /\ Creating(h) /\ Creating(g)
    /\ target[h] = target[g] /\ req[h].body.appId = req[g].body.appId
    => /\ ~(IsCreated(response[h]) /\ IsCreated(response[g]))
       /\ \A k \in {h, g} : \/ IsCreated(response[k])
                              \/ IsUpdated(response[k])
                              \/ IsStoreFailure(response[k])
       /\ Len(RowsNow(h)) <= 1
       /\ OnlyDuplicateKeyRejected(h) /\ OnlyDuplicateKeyRejected(g)
            => /\ IsCreated(response[h]) \/ IsCreated(response[g])
               /\ Len(RowsNow(h)) = 1

\* both existence checks found nothing; the second INSERT hit the key
C18_Witness ==
  \E h, g \in DOMAIN pc :
    /\ h # g /\ Creating(h) /\ Creating(g)
    /\ target[h] = target[g] /\ req[h].body.appId = req[g].body.appId
    /\ IsCreated(response[h])
    /\ IsStoreFailure(response[g]) /\ thrown[g] = DuplicateKey
    /\ Occurs(trace[g], "insert")
    /\ Len(RowsNow(h)) = 1
====
